---- MODULE Spec2Model ----
(***************************************************************************)
(* K-hop feature propagation (KProp) and the two-stage GNN classifier of   *)
(* models.py.                                                              *)
(*                                                                         *)
(* Tensors are modelled with exact real arithmetic.  A real number is a    *)
(* finite sum  SUM_r  c_r / sqrt(r)  over square-free radicands r with     *)
(* non-zero rational coefficients c_r = <<num, den>>: this set of numbers  *)
(* is closed under the operations the code performs (+, *, division by a   *)
(* count, deg^-0.5 of an integer degree).  Floating-point rounding is not  *)
(* modelled.  Feature matrices have one column (in_channels =              *)
(* out_channels = 1), so a matrix is a function from node to real.         *)
(***************************************************************************)
EXTENDS Integers, Sequences, FiniteSets, TLC

\* ------------------------------------------------------------------ bounds
MaxEdges == 2        \* longest edge list given to a single aggregation
MaxK == 2            \* largest hop count

\* the graph's nodes, 0 .. N-1
Nodes == {0, 1}
NumNodes == Cardinality(Nodes)

\* -------------------------------------------------------- exact arithmetic
RECURSIVE Gcd(_, _)
Gcd(a, b) == IF b = 0 THEN a ELSE Gcd(b, a % b)

Abs(n) == IF n < 0 THEN -n ELSE n

\* the rational n/d in lowest terms, d > 0
QNorm(n, d, g) ==
    IF d < 0 THEN <<(-n) \div g, (-d) \div g>> ELSE <<n \div g, d \div g>>
Q(n, d) == QNorm(n, d, Gcd(Abs(n), Abs(d)))

\* a + b over the least common denominator, g = gcd of the denominators
QAddBy(a, b, g) ==
    Q(a[1] * (b[2] \div g) + b[1] * (a[2] \div g), (a[2] \div g) * b[2])
QAdd(a, b) == QAddBy(a, b, Gcd(a[2], b[2]))
QMul(a, b) == Q(a[1] * b[1], a[2] * b[2])

\* the largest s with s*s dividing n (n >= 1)
SquarePart(n) ==
    CHOOSE s \in 1 .. n :
        /\ n % (s * s) = 0
        /\ \A t \in (s + 1) .. n : n % (t * t) # 0

RZero == <<>>
RRat(q) == IF q[1] = 0 THEN RZero ELSE (1 :> q)
RInt(n) == RRat(Q(n, 1))
Coef(a, r) == IF r \in DOMAIN a THEN a[r] ELSE <<0, 1>>

\* the terms of f with a non-zero coefficient
Strip(f) == [r \in {u \in DOMAIN f : f[u][1] # 0} |-> f[r]]
RAdd(a, b) ==
    Strip([r \in (DOMAIN a) \cup (DOMAIN b) |-> QAdd(Coef(a, r), Coef(b, r))])

RScale(q, a) == IF q[1] = 0 THEN RZero ELSE [r \in DOMAIN a |-> QMul(q, a[r])]

\* (c / sqrt(r)) * b.  For square-free r and u, 1/(sqrt(r)*sqrt(u)) is
\* 1/(g*sqrt(r*u/g^2)) with g = gcd(r, u), and u |-> r*u/g^2 is one-to-one.
Img(r, u, g) == (r * u) \div (g * g)
Src(r, b, v) == CHOOSE u \in DOMAIN b : Img(r, u, Gcd(r, u)) = v
TermAt(r, c, b, u) == QMul(QMul(c, b[u]), Q(1, Gcd(r, u)))
RMulTerm(r, c, b) ==
    [v \in {Img(r, u, Gcd(r, u)) : u \in DOMAIN b} |->
        TermAt(r, c, b, Src(r, b, v))]

RECURSIVE RMulOver(_, _, _)
RMulOver(rs, a, b) ==
    IF rs = {} THEN RZero
    ELSE LET r == CHOOSE u \in rs : TRUE
         IN  RAdd(RMulTerm(r, a[r], b), RMulOver(rs \ {r}, a, b))

RMul(a, b) == RMulOver(DOMAIN a, a, b)

\* n^(-0.5) for an integer n >= 1
InvSqrtBy(n, s) == ((n \div (s * s)) :> Q(1, s))
RInvSqrt(n) == InvSqrtBy(n, SquarePart(n))

\* ------------------------------------------------------------ library calls
\* an optional value (Python's None or a value): None, or Some(v) with Val
None == <<>>
Some(v) == <<v>>
Val(o) == o[1]

\* math.exp(-p).  The decay p is kept as the record [ln |-> d], standing for
\* the real number ln(d), so that exp(-p) is the exact rational 1/d.
MathExpNeg(p) == Q(1, p.ln)

Ones(n) == [i \in 1 .. n |-> 1]

\* the positions of the edges that are not self-loops, in order
Kept(edge_index) ==
    LET mask(i) == edge_index[i][1] # edge_index[i][2]
    IN  SelectSeq([i \in 1 .. Len(edge_index) |-> i], mask)

\* the positions of the self-loops of node v
LoopsAt(edge_index, v) == {i \in 1 .. Len(edge_index) : edge_index[i] = <<v, v>>}

\* the weight of the self-loop appended for a node whose self-loops in the
\* input are at the positions loops
loop_weight(edge_weight, loops) ==
    IF loops = {} THEN 1
    ELSE edge_weight[CHOOSE i \in loops : \A j \in loops : j <= i]

Remaining(edge_index, edge_weight, kept) ==
    [edge_index  |-> [i \in 1 .. Len(kept) |-> edge_index[kept[i]]]
                     \o [v \in 1 .. NumNodes |-> <<v - 1, v - 1>>],
     edge_weight |-> [i \in 1 .. Len(kept) |-> edge_weight[kept[i]]]
                     \o [v \in 1 .. NumNodes |->
                            loop_weight(edge_weight, LoopsAt(edge_index, v - 1))]]

\* torch_geometric.utils.add_remaining_self_loops(edge_index, edge_weight,
\* fill_value = 1, num_nodes): drop every self-loop of the input, then append
\* one self-loop per node 0..N-1; a node's appended loop takes the weight of
\* the loop it had in the input, fill_value if it had none.  (The library
\* assigns loop_weight[row[inv_mask]] = edge_weight[inv_mask]; the model's
\* inputs give equal weights to all edges, so duplicate self-loops of one node
\* agree on the weight assigned.)
add_remaining_self_loops(edge_index, edge_weight) ==
    Remaining(edge_index, edge_weight, Kept(edge_index))

RECURSIVE SumInt(_)
SumInt(s) == IF s = <<>> THEN 0 ELSE Head(s) + SumInt(Tail(s))

\* gcn_norm: the edge weights default to ones
DefaultOnes(edge_index, edge_weight) ==
    IF edge_weight = None THEN Ones(Len(edge_index)) ELSE Val(edge_weight)

\* the edges and weights after the self-loops are added, if requested
WithLoops(edge_index, edge_weight, add_self_loops) ==
    IF add_self_loops
    THEN add_remaining_self_loops(edge_index, edge_weight)
    ELSE [edge_index |-> edge_index, edge_weight |-> edge_weight]

\* gcn_norm: deg = scatter_add(edge_weight, col)
deg(e, v) ==
    SumInt([i \in 1 .. Len(e.edge_index) |->
               IF e.edge_index[i][2] = v THEN e.edge_weight[i] ELSE 0])

\* a different normalization, for comparison: each edge weighted by the inverse
\* degree of its target (rows of the aggregation sum to 1) instead of
\* symmetrically
gcn_norm_by_target(edge_index, edge_weight, add_self_loops) ==
    LET e == WithLoops(edge_index, DefaultOnes(edge_index, edge_weight),
                       add_self_loops)
    IN  [edge_index  |-> e.edge_index,
         edge_weight |-> [i \in 1 .. Len(e.edge_index) |->
                            RRat(Q(e.edge_weight[i],
                                   deg(e, e.edge_index[i][2])))]]

\* gcn_norm: deg_inv_sqrt = deg.pow(-0.5), inf replaced by 0
deg_inv_sqrt(d) == IF d = 0 THEN RZero ELSE RInvSqrt(d)

\* gcn_norm: deg_inv_sqrt[row] * edge_weight * deg_inv_sqrt[col] of edge i
SymWeight(e, i) ==
    RMul(RScale(Q(e.edge_weight[i], 1),
                deg_inv_sqrt(deg(e, e.edge_index[i][1]))),
         deg_inv_sqrt(deg(e, e.edge_index[i][2])))

SymNorm(e) ==
    [edge_index  |-> e.edge_index,
     edge_weight |-> [i \in 1 .. Len(e.edge_index) |-> SymWeight(e, i)]]

\* torch_geometric.nn.conv.gcn_conv.gcn_norm(edge_index, edge_weight,
\* num_nodes, add_self_loops): weights default to ones, self-loops are added
\* on request, deg = scatter_add(edge_weight, col), deg_inv_sqrt = deg^-0.5
\* with inf replaced by 0, and the weight of edge (row, col) is
\* deg_inv_sqrt[row] * edge_weight * deg_inv_sqrt[col].
gcn_norm(edge_index, edge_weight, add_self_loops) ==
    SymNorm(WithLoops(edge_index, DefaultOnes(edge_index, edge_weight),
                      add_self_loops))

RECURSIVE SumReal(_)
SumReal(s) == IF s = <<>> THEN RZero ELSE RAdd(Head(s), SumReal(Tail(s)))

\* KProp.message: edge_weight.view(-1, 1) * x_j
message(x_j, edge_weight) == RMul(edge_weight, x_j)

\* the message node v receives over edge i (none if the edge points elsewhere)
Msg(edge_index, x, edge_weight, v, i) ==
    IF edge_index[i][2] = v
    THEN message(x[edge_index[i][1]], edge_weight[i])
    ELSE RZero

\* the sum of the messages node v receives
Total(edge_index, x, edge_weight, v) ==
    SumReal([i \in 1 .. Len(edge_index) |-> Msg(edge_index, x, edge_weight, v, i)])

\* the number of edges pointing to node v
Count(edge_index, v) ==
    Cardinality({i \in 1 .. Len(edge_index) : edge_index[i][2] = v})

Clamp(c) == IF c < 1 THEN 1 ELSE c

Reduce(aggr, total, count) ==
    IF aggr = "add" THEN total ELSE RScale(Q(1, Clamp(count)), total)

\* MessagePassing.propagate with aggr 'add' or 'mean': node i receives the
\* messages of the edges (j, i); 'add' sums them, 'mean' divides the sum by
\* the number of such edges, a count of 0 being clamped to 1 (scatter_mean).
propagate(aggr, edge_index, x, edge_weight) ==
    [v \in Nodes |->
        Reduce(aggr, Total(edge_index, x, edge_weight, v), Count(edge_index, v))]

\* ------------------------------------------------------------------- KProp
NoOp == [constructed |-> FALSE]

\* torch.nn.Linear(1, 1): x * weight + bias, row by row
Linear(fc, x) ==
    [v \in Nodes |-> RAdd(RScale(Q(fc.weight, 1), x[v]), RInt(fc.bias))]

\* a different constructor, for comparison: self-loops requested for every K
KPropInit_loops_always(in_channels, out_channels, K, p, aggregator, cached, fc) ==
    [constructed    |-> TRUE,
     aggr           |-> IF aggregator = "gcn" THEN "add" ELSE "mean",
     in_channels    |-> in_channels,
     out_channels   |-> out_channels,
     fc             |-> fc,
     K              |-> K,
     p              |-> p,
     add_self_loops |-> TRUE,
     cached         |-> cached,
     _cached_x      |-> None,
     aggregator     |-> aggregator]

\* KProp.__init__
KPropInit(in_channels, out_channels, K, p, aggregator, cached, fc) ==
    [constructed    |-> TRUE,
     aggr           |-> IF aggregator = "gcn" THEN "add" ELSE "mean",
     in_channels    |-> in_channels,
     out_channels   |-> out_channels,
     fc             |-> fc,
     K              |-> K,
     p              |-> p,
     add_self_loops |-> (K = 1),
     cached         |-> cached,
     _cached_x      |-> None,
     aggregator     |-> aggregator]

\* integer edge weights as reals
AsReal(e) ==
    [edge_index  |-> e.edge_index,
     edge_weight |-> [i \in 1 .. Len(e.edge_index) |-> RInt(e.edge_weight[i])]]

\* a different weight resolution, for comparison: weights passed by the caller
\* are handed to propagate unchanged and normalization runs only without them
Normalize_as_is(self, edge_index, edge_weight) ==
    IF edge_weight # None
    THEN AsReal([edge_index |-> edge_index, edge_weight |-> Val(edge_weight)])
    ELSE IF self.aggregator = "gcn"
    THEN gcn_norm(edge_index, edge_weight, self.add_self_loops)
    ELSE AsReal(WithLoops(edge_index, Ones(Len(edge_index)),
                          self.add_self_loops))

\* KProp.neighborhood_aggregation, lines 39-49: the edge list and the edge
\* weights handed to propagate
Normalize(self, edge_index, edge_weight) ==
    IF self.aggregator = "gcn"
    THEN gcn_norm(edge_index, edge_weight, self.add_self_loops)
    ELSE AsReal(WithLoops(edge_index, Ones(Len(edge_index)),
                          self.add_self_loops))

ScaleMatrix(q, x) == [v \in Nodes |-> RScale(q, x[v])]

\* a different loop body, for comparison: the coefficient is decayed before it
\* multiplies the aggregate
LoopBody_decay_first(self, e, st) ==
    [x      |-> ScaleMatrix(QMul(st.coeff, MathExpNeg(self.p)),
                            propagate(self.aggr, e.edge_index, st.x,
                                      e.edge_weight)),
     coeff  |-> QMul(st.coeff, MathExpNeg(self.p)),
     coeffs |-> Append(st.coeffs, QMul(st.coeff, MathExpNeg(self.p)))]

\* one iteration of the loop of lines 52-54; coeffs records the coefficient
\* each iteration multiplied by
LoopBody(self, e, st) ==
    [x      |-> ScaleMatrix(st.coeff,
                            propagate(self.aggr, e.edge_index, st.x,
                                      e.edge_weight)),
     coeff  |-> QMul(st.coeff, MathExpNeg(self.p)),
     coeffs |-> Append(st.coeffs, st.coeff)]

RECURSIVE Loop(_, _, _, _)
\* for k in range(self.K)
Loop(self, e, st, k) ==
    IF k >= self.K THEN st ELSE Loop(self, e, LoopBody(self, e, st), k + 1)

\* what the aggregation returns and what it used
Aggregation(e, st) ==
    [x           |-> st.x,
     edge_index  |-> e.edge_index,
     edge_weight |-> e.edge_weight,
     coeffs      |-> st.coeffs]

\* lines 51-56, on the edges and weights e of lines 39-49
Diffuse(self, x, e) ==
    Aggregation(e, Loop(self, e, [x |-> x, coeff |-> Q(1, 1), coeffs |-> <<>>], 0))

\* KProp.neighborhood_aggregation
neighborhood_aggregation(self, x, edge_index, edge_weight) ==
    Diffuse(self, x, Normalize(self, edge_index, edge_weight))

\* a different store condition, for comparison: the diffusion is cached whatever
\* the cached flag says
StoreCache_always(self) == TRUE

\* whether forward stores the diffused matrix it computed (line 31)
StoreCache(self) == self.cached

\* lines 31-32 and 35, na being the result of line 30
Store(self, na) ==
    [self        |-> IF StoreCache(self)
                     THEN [self EXCEPT !._cached_x = Some(na.x)]
                     ELSE self,
     computed    |-> TRUE,
     diffused    |-> na.x,
     edge_index  |-> na.edge_index,
     edge_weight |-> na.edge_weight,
     coeffs      |-> na.coeffs,
     out         |-> Linear(self.fc, na.x)]

\* what forward does when the cache is empty (lines 30-32, 35)
Miss(self, x, edge_index, edge_weight) ==
    Store(self, neighborhood_aggregation(self, x, edge_index, edge_weight))

\* a different forward, for comparison: with a filled cache the linear map is
\* applied to the features passed to the call
forward_hit_on_input(self, x, edge_index, edge_weight) ==
    IF self._cached_x = None
    THEN Miss(self, x, edge_index, edge_weight)
    ELSE [self        |-> self,
          computed    |-> FALSE,
          diffused    |-> x,
          edge_index  |-> <<>>,
          edge_weight |-> <<>>,
          coeffs      |-> <<>>,
          out         |-> Linear(self.fc, x)]

\* a different forward, for comparison: a call on a filled cache returns the
\* cached diffusion and then replaces it by the diffusion of its own arguments
forward_refresh(self, x, edge_index, edge_weight) ==
    IF self._cached_x = None
    THEN Miss(self, x, edge_index, edge_weight)
    ELSE LET na == neighborhood_aggregation(self, x, edge_index, edge_weight)
         IN  [self        |-> [self EXCEPT !._cached_x = Some(na.x)],
              computed    |-> FALSE,
              diffused    |-> Val(self._cached_x),
              edge_index  |-> <<>>,
              edge_weight |-> <<>>,
              coeffs      |-> <<>>,
              out         |-> Linear(self.fc, Val(self._cached_x))]

\* KProp.forward: the instance after the call, the returned matrix, and what
\* the call did on the way (computed: the diffusion ran in this call)
forward(self, x, edge_index, edge_weight) ==
    IF self._cached_x = None
    THEN Miss(self, x, edge_index, edge_weight)
    ELSE [self        |-> self,
          computed    |-> FALSE,
          diffused    |-> Val(self._cached_x),
          edge_index  |-> <<>>,
          edge_weight |-> <<>>,
          coeffs      |-> <<>>,
          out         |-> Linear(self.fc, Val(self._cached_x))]

\* --------------------------------------------------------------------- GNN
\* whether every term of the real number a is positive (so a >= 0)
NonNegative(a) == \A r \in DOMAIN a : a[r][1] > 0

\* the scale of torch.selu, 1.0507009873554805, to four decimals
SeluScale == Q(10507, 10000)

\* torch.selu, elementwise: scale * x for x >= 0.  For x < 0 it is
\* scale * alpha * (exp(x) - 1), a number outside the arithmetic of this
\* module: the features, edge weights and linear maps of the inputs are
\* non-negative, which keeps x >= 0, and the CHOOSE has no value otherwise.
selu(x) ==
    [v \in Nodes |->
        IF NonNegative(x[v]) THEN RScale(SeluScale, x[v])
        ELSE CHOOSE y \in {} : TRUE]

\* torch.nn.Dropout(p = rate): the identity in evaluation mode and for rate
\* 0; in training mode the elements outside the drawn mask become 0 and the
\* others are scaled by 1 / (1 - rate)
Dropout(rate, training, mask, x) ==
    IF ~training \/ rate[1] = 0 THEN x
    ELSE [v \in Nodes |->
            IF mask[v]
            THEN RScale(Q(rate[2], rate[2] - rate[1]), x[v])
            ELSE RZero]

\* F.log_softmax(x, dim = 1) of a matrix with one column: x - log(exp(x))
log_softmax(x) == [v \in Nodes |-> RAdd(x[v], RScale(Q(-1, 1), x[v]))]

NoGnn == [constructed |-> FALSE]

\* a different constructor, for comparison: stage 2 caches as well
GNNInit_conv2_cached(input_dim, hidden_dim, output_dim, dropout, K, p, aggregator, fc1, fc2) ==
    [constructed |-> TRUE,
     conv1   |-> KPropInit(input_dim, hidden_dim, K, p, aggregator, TRUE, fc1),
     conv2   |-> KPropInit(hidden_dim, output_dim, 1, p, aggregator, TRUE, fc2),
     dropout |-> dropout]

\* GNN.__init__
GNNInit(input_dim, hidden_dim, output_dim, dropout, K, p, aggregator, fc1, fc2) ==
    [constructed |-> TRUE,
     conv1   |-> KPropInit(input_dim, hidden_dim, K, p, aggregator, TRUE, fc1),
     conv2   |-> KPropInit(hidden_dim, output_dim, 1, p, aggregator, FALSE, fc2),
     dropout |-> dropout]

\* what GNN.forward returns and what its two stages did
GnnResult(self, r1, h, r2) ==
    [self   |-> [self EXCEPT !.conv1 = r1.self, !.conv2 = r2.self],
     stage1 |-> r1,
     input2 |-> h,
     stage2 |-> r2,
     out    |-> log_softmax(r2.out)]

\* lines 74-75, h being the result of line 73
Stage2(self, edge_index, edge_weight, r1, h) ==
    GnnResult(self, r1, h, forward(self.conv2, h, edge_index, edge_weight))

\* lines 72-75, r1 being what line 71 did
Activate(self, edge_index, edge_weight, training, mask, r1) ==
    Stage2(self, edge_index, edge_weight, r1,
           Dropout(self.dropout, training, mask, selu(r1.out)))

\* GNN.forward: the classifier after the call, the returned matrix, and what
\* the two stages did
GnnForward(self, x, edge_index, edge_weight, training, mask) ==
    Activate(self, edge_index, edge_weight, training, mask,
             forward(self.conv1, x, edge_index, edge_weight))

\* ------------------------------------------------------------------ inputs
Matrix(f) == [v \in Nodes |-> RInt(f[v])]
Features == {Matrix(f) : f \in [Nodes -> {0, 1}]}
EdgeLists(n) == UNION {[1 .. k -> Nodes \X Nodes] : k \in 0 .. n}
Topologies == EdgeLists(MaxEdges)
\* the caller's edge weights: none, or the same weight on every edge
EdgeWeights(edge_index) ==
    {None} \cup {Some([i \in 1 .. Len(edge_index) |-> w]) : w \in {1, 2}}
\* p = ln 1 = 0 and p = ln 2
Decays == {[ln |-> 1], [ln |-> 2]}
LinearMaps == {[weight |-> 1, bias |-> 0], [weight |-> 2, bias |-> 1]}
InitialMap == [weight |-> 1, bias |-> 0]

\* what a caller may pass as K and aggregator; "sum" stands for any selector
\* other than 'gcn' and 'mean'
AnyConfig ==
    [K : 0 .. MaxK, p : Decays, aggregator : {"gcn", "mean", "sum"},
     cached : BOOLEAN]
SupportedConfig(c) == c.aggregator \in {"gcn", "mean"} /\ c.K >= 1
Supported == {c \in AnyConfig : SupportedConfig(c)}

\* the arguments of the calls made on an operator that is called repeatedly
CallFeatures == {Matrix([v \in Nodes |-> 1]), Matrix([v \in Nodes |-> v])}
CallTopologies ==
    {<<>>, <<<<0, 1>>>>, <<<<1, 1>>>>, <<<<0, 1>>, <<1, 0>>>>}
CallWeights(edge_index) ==
    {None, Some([i \in 1 .. Len(edge_index) |-> 2])}

\* the classifier's calls: no weights, as NodeClassifier.forward passes the
\* edge_attr of a graph that has none
GnnConfig ==
    [K : 1 .. MaxK, p : {[ln |-> 2]}, aggregator : {"gcn", "mean"},
     dropout : {Q(0, 1), Q(1, 2)}]
GnnTopologies == {<<>>, <<<<0, 1>>>>, <<<<0, 1>>, <<1, 0>>>>}
\* the masks dropout can draw; outside training, and at rate 0, nothing is
\* drawn
Masks(rate, training) ==
    IF training /\ rate[1] # 0 THEN [Nodes -> BOOLEAN]
    ELSE {[v \in Nodes |-> TRUE]}

\* -------------------------------------------------------------- data module
\* bounds of the data-module runs
MaxRepeats == 2
MaxAdded == 3

\* the transforms (transforms.py): a data object is represented by the
\* sequence of the transforms it has passed through, oldest first, so that a
\* transform appends itself to the object it is applied to
Privatize(method, eps) == [kind |-> "Privatize", method |-> method, eps |-> eps]
NormalizeTransform(low, high) == [kind |-> "Normalize", low |-> low, high |-> high]
\* torch_geometric.transforms.Compose([...])
Compose(transforms) == [kind |-> "Compose", transforms |-> transforms]

\* an item of the dataset as stored on disk, before any transform
RawData == <<>>
\* the stored items of the dataset (one graph per dataset)
StoredItems == <<RawData>>

\* transform(data); Compose applies its transforms in list order
RECURSIVE Transformed(_, _)
RECURSIVE ComposedFrom(_, _, _)
ComposedFrom(transforms, i, data) ==
    IF i > Len(transforms) THEN data
    ELSE ComposedFrom(transforms, i + 1, Transformed(transforms[i], data))
Transformed(transform, data) ==
    IF transform.kind = "Compose" THEN ComposedFrom(transform.transforms, 1, data)
    ELSE Append(data, transform)

\* dataset[i]: the stored item, passed through dataset.transform if there is one
DatasetItem(transform, data) ==
    IF transform = None THEN data ELSE Transformed(Val(transform), data)

NoModule ==
    [constructed |-> FALSE, transform |-> None, data_list |-> None,
     has_prepared_data |-> FALSE]

\* GraphDataModule.prepare_data; has_prepared_data is set by the call
prepare_data(self) ==
    [self EXCEPT !.data_list =
                     Some([i \in 1 .. Len(StoredItems) |->
                              DatasetItem(self.transform, StoredItems[i])]),
                 !.has_prepared_data = TRUE]

\* add_transform where, after preparation, the transform is applied to the
\* stored items instead of the prepared ones
add_transform_on_stored(self, transform) ==
    IF self.has_prepared_data
    THEN [self EXCEPT !.data_list =
              Some([i \in 1 .. Len(StoredItems) |->
                       Transformed(transform, StoredItems[i])])]
    ELSE [self EXCEPT !.transform =
              IF self.transform = None THEN Some(transform)
              ELSE Some(Compose(<<Val(self.transform), transform>>))]

\* GraphDataModule.add_transform
add_transform(self, transform) ==
    IF self.has_prepared_data
    THEN [self EXCEPT !.data_list =
              Some([i \in 1 .. Len(Val(self.data_list)) |->
                       Transformed(transform, Val(self.data_list)[i])])]
    ELSE [self EXCEPT !.transform =
              IF self.transform = None THEN Some(transform)
              ELSE Some(Compose(<<Val(self.transform), transform>>))]

\* GraphDataModule.__init__(name, normalize, transform)
NewModule(transform) ==
    [constructed |-> TRUE, transform |-> transform, data_list |-> None,
     has_prepared_data |-> FALSE]
GraphDataModule(normalize, transform) ==
    IF normalize # None
    THEN add_transform(NewModule(transform),
                       NormalizeTransform(Val(normalize)[1], Val(normalize)[2]))
    ELSE NewModule(transform)

\* the transforms a module is constructed with, in the order of application
GivenAt(normalize, transform) ==
    (IF transform = None THEN <<>> ELSE <<Val(transform)>>)
    \o (IF normalize = None THEN <<>>
        ELSE <<NormalizeTransform(Val(normalize)[1], Val(normalize)[2])>>)

\* trainer.fit / trainer.test: the trainer prepares the data of a module that
\* has not prepared it, then loads self.data_list
Fit(self) == IF self.has_prepared_data THEN self ELSE prepare_data(self)

\* one pass of the loop of train_and_test, on s = the module, the runs so far
\* and the transforms given so far
Ran(s, privatize, fitted) ==
    [dm |-> fitted,
     runs |-> Append(s.runs, [privatize |-> privatize,
                              seen |-> Val(fitted.data_list)]),
     added |-> Append(s.added, privatize)]
OneRun(s, privatize) == Ran(s, privatize, Fit(add_transform(s.dm, privatize)))
RECURSIVE Repeats(_, _, _)
Repeats(s, privatize, n) ==
    IF n = 0 THEN s ELSE Repeats(OneRun(s, privatize), privatize, n - 1)
train_and_test(s, method, eps, repeats) ==
    Repeats(s, Privatize(method, eps), repeats)

\* itertools.product of four lists, as a list
Product(ms, es, ks, gs) ==
    [i \in 1 .. Len(ms) * Len(es) * Len(ks) * Len(gs) |->
        <<ms[((i - 1) \div (Len(es) * Len(ks) * Len(gs))) + 1],
          es[(((i - 1) \div (Len(ks) * Len(gs))) % Len(es)) + 1],
          ks[(((i - 1) \div Len(gs)) % Len(ks)) + 1],
          gs[((i - 1) % Len(gs)) + 1]>>]
ToSet(list) == {list[i] : i \in 1 .. Len(list)}
\* the orders in which a set may be iterated
Orders(set) ==
    {s \in [1 .. Cardinality(set) -> set] :
        \A i, j \in 1 .. Cardinality(set) : i # j => s[i] # s[j]}
\* the configs of batch_train_and_test; morder and eorder are the iteration
\* orders of set(args.methods) - {'raw'} and set(args.epsilons)
Configs(args, morder, eorder) ==
    IF "raw" \in ToSet(args.methods)
    THEN Product(<<"raw">>, <<0>>, args.steps, args.aggs)
         \o Product(morder, eorder, args.steps, args.aggs)
    ELSE Product(args.methods, args.epsilons, args.steps, args.aggs)

\* command lines: -m, -e, -k, -a, -r
MethodLists == {<<"raw">>, <<"mbm">>, <<"raw", "mbm">>, <<"mbm", "raw">>}
EpsilonLists == {<<1>>, <<2>>, <<1, 2>>, <<2, 1>>}
StepLists == {<<1>>, <<1, 2>>}
Args ==
    [methods : MethodLists, epsilons : EpsilonLists, steps : StepLists,
     aggs : {<<"mean">>}, repeats : 1 .. MaxRepeats]
\* the transforms handed to a module by a direct caller
AnyTransforms ==
    {Privatize(m, e) : m \in {"mbm"}, e \in {1, 2}}
    \cup {Privatize("raw", 0), NormalizeTransform(0, 1)}

\* batch_train_and_test before it is started
NoJob == [active |-> FALSE, todo |-> <<>>, repeats |-> 0]

\* ------------------------------------------------------------------- state
VARIABLES
    op,      \* the KProp instance, NoOp before construction
    fill,    \* the call that filled op's cache (NoCall: no such call yet)
    last,    \* the last forward call on op (NoCall: no call yet)
    gnn,     \* the GNN instance, NoGnn before construction
    gfill,   \* the call that filled gnn.conv1's cache
    glast,   \* the last forward call on gnn
    failed,  \* whether a forward call on op has raised
    dm,      \* the GraphDataModule, NoModule before construction
    added,   \* the transforms given to dm so far, oldest first
    job,     \* batch_train_and_test: the configs left and the repeats
    runs     \* the runs of train_and_test so far: transform and data seen

vars == <<op, fill, last, gnn, gfill, glast, failed, dm, added, job, runs>>
kpropVars == <<op, fill, last, failed>>
gnnVars == <<gnn, gfill, glast>>
dataVars == <<dm, added, job, runs>>

NoCall == [kind |-> "none"]

Init ==
    /\ op = NoOp /\ fill = NoCall /\ last = NoCall
    /\ gnn = NoGnn /\ gfill = NoCall /\ glast = NoCall
    /\ failed = FALSE
    /\ dm = NoModule /\ added = <<>> /\ job = NoJob /\ runs = <<>>

\* KProp(in_channels, out_channels, K, p, aggregator, cached)
Construct(configs) ==
    /\ ~op.constructed
    /\ \E c \in configs :
          op' = KPropInit(1, 1, c.K, c.p, c.aggregator, c.cached, InitialMap)
    /\ UNCHANGED <<fill, last, failed, gnnVars, dataVars>>

\* what is recorded of a call that ran the diffusion (first: it was the first
\* call on the operator; fc: the parameters of the linear map at the call)
Computed(x, edge_index, edge_weight, r) ==
    [kind |-> "computed", first |-> (last = NoCall), fc |-> op.fc,
     x |-> x, edge_index |-> edge_index,
     edge_weight |-> edge_weight, used_index |-> r.edge_index,
     used_weight |-> r.edge_weight, coeffs |-> r.coeffs,
     diffused |-> r.diffused, out |-> r.out]

\* what is recorded of a call answered from the cache: whether its arguments
\* all differ from those of the call that filled the cache, and whether the
\* diffusion of its own arguments would differ from the cached one
Hit(x, edge_index, edge_weight, r) ==
    [kind |-> "hit", fc |-> op.fc,
     changed |-> /\ x # fill.x
                 /\ edge_index # fill.edge_index
                 /\ edge_weight # fill.edge_weight,
     stale |-> neighborhood_aggregation(op, x, edge_index, edge_weight).x
                  # r.diffused,
     diffused |-> r.diffused, out |-> r.out]

\* the state after a call that did r
Record(x, edge_index, edge_weight, r) ==
    /\ op' = r.self
    /\ last' = IF r.computed
               THEN Computed(x, edge_index, edge_weight, r)
               ELSE Hit(x, edge_index, edge_weight, r)
    /\ fill' = IF r.computed /\ r.self._cached_x # None
               THEN [kind |-> "fill", x |-> x, edge_index |-> edge_index,
                     edge_weight |-> edge_weight, diffused |-> r.diffused]
               ELSE fill

\* op(x, edge_index, edge_weight)
Forward(x, edge_index, edge_weight) ==
    /\ op.constructed
    /\ Record(x, edge_index, edge_weight,
              forward(op, x, edge_index, edge_weight))
    /\ UNCHANGED <<failed, gnnVars, dataVars>>

\* a call of an operator that is called repeatedly
Call ==
    \E x \in CallFeatures, edge_index \in CallTopologies :
        \E edge_weight \in CallWeights(edge_index) :
            Forward(x, edge_index, edge_weight)

\* an optimizer step of the training loop replaces the parameters of fc
OptimizerStep ==
    /\ op.constructed
    /\ \E fc \in LinearMaps \ {op.fc} : op' = [op EXCEPT !.fc = fc]
    /\ UNCHANGED <<fill, last, failed, gnnVars, dataVars>>

\* one supported operator, any number of calls, trained in between
Next == Construct(Supported) \/ Call \/ OptimizerStep
Spec == Init /\ [][Next]_vars

\* the first call of an operator
FirstCall ==
    /\ last = NoCall
    /\ \E x \in Features, edge_index \in Topologies :
          \E edge_weight \in EdgeWeights(edge_index) :
              Forward(x, edge_index, edge_weight)

\* one operator of any configuration, caching off, and its first call
NextAgg == Construct({c \in AnyConfig : ~c.cached}) \/ FirstCall
SpecAgg == Init /\ [][NextAgg]_vars

\* edge lists naming a node outside 0 .. N-1
BadTopologies ==
    {<<<<0, NumNodes>>>>, <<<<NumNodes, 0>>>>, <<<<0, 1>>, <<NumNodes, NumNodes>>>>}

\* whether every edge joins nodes of 0 .. N-1
InRange(edge_index) ==
    \A i \in 1 .. Len(edge_index) :
        edge_index[i][1] \in Nodes /\ edge_index[i][2] \in Nodes

\* whether neighborhood_aggregation raises: an index outside 0 .. N-1 makes
\* gcn_norm (line 40), add_remaining_self_loops (line 47) or the first
\* propagate (line 53) raise an index error, before x is reassigned
Raises(self, x, edge_index, edge_weight) == ~InRange(edge_index)

\* a different exception path, for comparison: the matrix the aggregation had
\* reached when it raised is stored
OnRaise_stores_partial(self, partial) ==
    IF self.cached THEN [self EXCEPT !._cached_x = Some(partial)] ELSE self

\* the instance after line 30 raised, partial being the local x at that
\* point: the exception leaves forward, lines 31-35 do not run
OnRaise(self, partial) == self

\* op(x, edge_index, edge_weight) with an edge list that is out of range.  On
\* an empty cache line 30 raises; on a filled cache the arguments are not
\* looked at and the call is answered from the cache.
BadForward(x, edge_index, edge_weight) ==
    /\ op.constructed
    /\ IF op._cached_x = None
       THEN /\ Raises(op, x, edge_index, edge_weight)
            /\ op' = OnRaise(op, x)
            /\ last' = [kind |-> "raised", x |-> x, edge_index |-> edge_index,
                        edge_weight |-> edge_weight]
            /\ failed' = TRUE
            /\ fill' = fill
       ELSE /\ op' = op
            /\ last' = [kind |-> "hit", fc |-> op.fc,
                        changed |-> /\ x # fill.x
                                    /\ edge_index # fill.edge_index
                                    /\ edge_weight # fill.edge_weight,
                        stale |-> TRUE,
                        diffused |-> Val(op._cached_x),
                        out |-> Linear(op.fc, Val(op._cached_x))]
            /\ UNCHANGED <<fill, failed>>
    /\ UNCHANGED <<gnnVars, dataVars>>

BadCall ==
    \E x \in CallFeatures, edge_index \in BadTopologies :
        BadForward(x, edge_index, None)

\* one supported operator with caching enabled, called with edge lists in and
\* out of range
NextFail == Construct({c \in Supported : c.cached}) \/ Call \/ BadCall
SpecFail == Init /\ [][NextFail]_vars

\* GNN(input_dim, hidden_dim, output_dim, dropout, K, p, aggregator), as
\* NodeClassifier.setup constructs it
GnnConstruct ==
    /\ ~gnn.constructed
    /\ \E c \in GnnConfig :
          gnn' = GNNInit(1, 1, 1, c.dropout, c.K, c.p, c.aggregator,
                         [weight |-> 2, bias |-> 1], InitialMap)
    /\ UNCHANGED <<gfill, glast, kpropVars, dataVars>>

\* the state after a classifier call that did r.  Recorded: the topology
\* passed, what each stage did, and whether the topology differs from the one
\* of the call that filled stage 1's cache (moved)
GnnRecord(x, edge_index, r, filling) ==
    /\ gnn' = r.self
    /\ gfill' = IF filling
                THEN [kind |-> "fill", x |-> x, edge_index |-> edge_index,
                      edge_weight |-> None, diffused |-> r.stage1.diffused]
                ELSE gfill
    /\ glast' =
          [kind |-> "call", first |-> (glast = NoCall),
           edge_index |-> edge_index, edge_weight |-> None,
           computed1 |-> r.stage1.computed,
           diffused1 |-> r.stage1.diffused,
           moved |-> ~filling /\ edge_index # gfill.edge_index,
           input2 |-> r.input2,
           computed2 |-> r.stage2.computed,
           used_index2 |-> r.stage2.edge_index,
           used_weight2 |-> r.stage2.edge_weight,
           diffused2 |-> r.stage2.diffused,
           out |-> r.out]

\* whether the call that did r filled stage 1's cache
Filling(r) == r.stage1.computed /\ r.self.conv1._cached_x # None

GnnDone(x, edge_index, r) == GnnRecord(x, edge_index, r, Filling(r))

\* gnn(x, edge_index, None), in training or in evaluation mode
GnnCall ==
    /\ gnn.constructed
    /\ \E x \in CallFeatures, edge_index \in GnnTopologies,
          training \in BOOLEAN :
        \E mask \in Masks(gnn.dropout, training) :
          GnnDone(x, edge_index,
                  GnnForward(gnn, x, edge_index, None, training, mask))
    /\ UNCHANGED <<kpropVars, dataVars>>

\* one classifier, any number of forward calls
NextGnn == GnnConstruct \/ GnnCall
SpecGnn == Init /\ [][NextGnn]_vars

\* ------------------------------------------------- data module: operations

\* the state after a pass of train_and_test
Landed(s) == dm' = s.dm /\ runs' = s.runs /\ added' = s.added

\* batch_train_and_test(args), up to its loop: the module is built with
\* normalize=(0, 1) and no transform, and the configs are listed
BatchTrainAndTest ==
    /\ ~dm.constructed /\ ~job.active
    /\ \E args \in Args :
          \E morder \in Orders(ToSet(args.methods) \ {"raw"}),
             eorder \in Orders(ToSet(args.epsilons)) :
              job' = [active |-> TRUE,
                      todo |-> Configs(args, morder, eorder),
                      repeats |-> args.repeats]
    /\ dm' = GraphDataModule(Some(<<0, 1>>), None)
    /\ added' = GivenAt(Some(<<0, 1>>), None)
    /\ runs' = <<>>
    /\ UNCHANGED <<kpropVars, gnnVars>>

\* one pass of the loop of batch_train_and_test: train_and_test on the next
\* config, with all its repeats
TrainAndTest ==
    /\ job.active /\ job.todo # <<>>
    /\ Landed(train_and_test([dm |-> dm, runs |-> runs, added |-> added],
                             Head(job.todo)[1], Head(job.todo)[2], job.repeats))
    /\ job' = [job EXCEPT !.todo = Tail(job.todo)]
    /\ UNCHANGED <<kpropVars, gnnVars>>

\* GraphDataModule(name, normalize=..., transform=...) by a direct caller
NewDataModule ==
    /\ ~dm.constructed /\ ~job.active
    /\ \E normalize \in {None, Some(<<0, 1>>)},
          transform \in {None} \cup {Some(t) : t \in AnyTransforms} :
          /\ dm' = GraphDataModule(normalize, transform)
          /\ added' = GivenAt(normalize, transform)
    /\ UNCHANGED <<job, runs, kpropVars, gnnVars>>

\* add_transform(transform) by a direct caller
AddTransform ==
    /\ dm.constructed /\ ~job.active
    /\ Len(added) < MaxAdded
    /\ \E transform \in AnyTransforms :
          /\ dm' = add_transform(dm, transform)
          /\ added' = Append(added, transform)
    /\ UNCHANGED <<job, runs, kpropVars, gnnVars>>

\* the first data_module[i] of a direct caller: __getitem__ prepares the data
GetItem ==
    /\ dm.constructed /\ ~job.active
    /\ ~dm.has_prepared_data
    /\ dm' = prepare_data(dm)
    /\ UNCHANGED <<added, job, runs, kpropVars, gnnVars>>

\* one data module, built by batch_train_and_test or by a direct caller
NextData ==
    BatchTrainAndTest \/ TrainAndTest \/ NewDataModule \/ AddTransform \/ GetItem
SpecData == Init /\ [][NextData]_vars

\* ------------------------------------------------------------------ claims
\* the operator as KProp.__init__ leaves it, with the parameters fc
Fresh(self, fc) ==
    KPropInit(self.in_channels, self.out_channels, self.K, self.p,
              self.aggregator, self.cached, fc)

\* C1: on an operator with caching enabled every call but the first is
\* answered from the cache: it returns the linear map (with its parameters at
\* the time of the call) applied to the diffused matrix that the first call
\* computed from its own arguments, whatever the arguments of the later call.
CachedCallsReturnFirstDiffusion ==
    (op.constructed /\ op.cached /\ last # NoCall) =>
        /\ fill.kind = "fill"
        /\ fill.diffused =
              neighborhood_aggregation(Fresh(op, op.fc), fill.x,
                                       fill.edge_index, fill.edge_weight).x
        /\ last.diffused = fill.diffused
        /\ last.out = Linear(last.fc, fill.diffused)
        /\ last.kind = "computed" =>
              /\ last.first
              /\ <<last.x, last.edge_index, last.edge_weight>>
                    = <<fill.x, fill.edge_index, fill.edge_weight>>
        /\ last.kind # "computed" => last.kind = "hit"

\* a later call whose three arguments all differ from the first call's, and
\* whose own diffusion would differ from the one returned
StaleHitReached ==
    /\ op.constructed /\ op.cached
    /\ last.kind = "hit" /\ last.changed /\ last.stale
    /\ last.out = Linear(op.fc, fill.diffused)

\* C2: the cache is empty or holds the one matrix that the filling call
\* computed; it is empty until the first call, only a call that ran the
\* diffusion on an operator with caching enabled fills it, and once filled it
\* never changes or empties.
CacheStep ==
    op'.constructed =>
        /\ Len(op'._cached_x) <= 1
        /\ last' = NoCall => op'._cached_x = None
        /\ op'._cached_x # None =>
              /\ op'.cached
              /\ fill'.kind = "fill"
              /\ op'._cached_x = Some(fill'.diffused)
        /\ (op.constructed /\ op._cached_x # None) =>
              /\ op'._cached_x = op._cached_x
              /\ fill' = fill
        /\ (op.constructed /\ op._cached_x = None /\ op'._cached_x # None) =>
              /\ op.cached
              /\ last'.kind = "computed"
              /\ op'._cached_x = Some(last'.diffused)
CacheWrittenOnceOnly == [][CacheStep]_vars

\* a cache hit left the filled cache as it was
CacheKeptOverHit ==
    /\ last.kind = "hit" /\ last.stale
    /\ op._cached_x = Some(fill.diffused)

\* C9: with caching disabled every call runs the diffusion and returns what a
\* newly constructed operator with the same configuration and linear map
\* returns for the same arguments; the instance keeps no cache; and a call
\* repeating the arguments of the call before it, the linear map unchanged,
\* returns the same matrix.
UncachedStep ==
    (op'.constructed /\ ~op'.cached /\ last' # NoCall) =>
        /\ op'._cached_x = None
        /\ last'.kind = "computed"
        /\ last'.out =
              forward(Fresh(op', last'.fc), last'.x, last'.edge_index,
                      last'.edge_weight).out
        /\ ( /\ last # NoCall
             /\ <<last'.x, last'.edge_index, last'.edge_weight, last'.fc>>
                   = <<last.x, last.edge_index, last.edge_weight, last.fc>> )
           => last'.out = last.out
UncachedCallsHistoryFree == [][UncachedStep]_vars

\* a second or later call on an operator without caching, with arguments
\* whose diffusion differs from its input
UncachedRepeatReached ==
    /\ op.constructed /\ ~op.cached
    /\ last.kind = "computed" /\ ~last.first
    /\ last.diffused # last.x

\* ---------------------------------------------- claims on a single aggregation
RECURSIVE Pow(_, _)
Pow(q, n) == IF n = 0 THEN Q(1, 1) ELSE QMul(q, Pow(q, n - 1))

RECURSIVE Aggregated(_, _, _, _, _)
\* x aggregated k times over the given edges, no decay applied
Aggregated(aggr, edge_index, edge_weight, x, k) ==
    IF k = 0 THEN x
    ELSE propagate(aggr, edge_index,
                   Aggregated(aggr, edge_index, edge_weight, x, k - 1),
                   edge_weight)

NonLoops(edge_index) ==
    LET keep(e) == e[1] # e[2] IN SelectSeq(edge_index, keep)
\* the weighted in-degree of v
InDegree(edge_index, w, v) ==
    SumInt([i \in 1 .. Len(edge_index) |->
               IF edge_index[i][2] = v THEN w[i] ELSE 0])
\* the caller's weights as reals
AsGiven(edge_weight) ==
    [i \in 1 .. Len(Val(edge_weight)) |-> RInt(Val(edge_weight)[i])]

\* C4 as stated: weights passed by the caller to a 'gcn' or 'mean' operator
\* are used as they are, on the edge list as it is.
CallerWeightsUsedAsIs ==
    (last.kind = "computed" /\ last.edge_weight # None /\ SupportedConfig(op)) =>
        /\ last.used_index = last.edge_index
        /\ last.used_weight = AsGiven(last.edge_weight)

\* C4 amended: weights passed by the caller do not bypass the normalization.
\* Under 'gcn' they are its input: with K = 1 the self-loops are replaced by
\* one per node (weight 1 where the node had none), and an edge of weight w
\* gets w / sqrt(deg(src) * deg(dst)), deg being the weighted in-degree (0 if
\* either degree is 0).  Under any other aggregator they are discarded: the
\* call does what the call without weights does.  (The caller's weights are
\* the same on every edge, Val(edge_weight)[1] on each.)
CallerWeightsNormalized ==
    (last.kind = "computed" /\ last.edge_weight # None) =>
        IF op.aggregator = "gcn"
        THEN LET ei == last.used_index
                 n  == Len(NonLoops(last.edge_index))
                 w(i) == IF op.K # 1 THEN Val(last.edge_weight)[i]
                         ELSE IF i <= n \/ LoopsAt(last.edge_index, ei[i][1]) # {}
                         THEN Val(last.edge_weight)[1]
                         ELSE 1
                 ws == [i \in 1 .. Len(ei) |-> w(i)]
                 d(i) == InDegree(ei, ws, ei[i][1]) * InDegree(ei, ws, ei[i][2])
             IN  /\ Len(ei) = IF op.K = 1 THEN n + NumNodes
                              ELSE Len(last.edge_index)
                 /\ \A i \in 1 .. Len(ei) :
                       last.used_weight[i] =
                           IF d(i) = 0 THEN RZero
                           ELSE RScale(Q(w(i), 1), RInvSqrt(d(i)))
        ELSE LET na == neighborhood_aggregation(Fresh(op, op.fc), last.x,
                                                last.edge_index, None)
             IN  /\ last.used_index = na.edge_index
                 /\ last.used_weight = na.edge_weight
                 /\ last.diffused = na.x
                 /\ \A i \in 1 .. Len(last.used_weight) :
                       last.used_weight[i] = RInt(1)

\* weights of 2 were passed and none of the weights used is 2
CallerWeightsChanged ==
    /\ last.kind = "computed" /\ last.edge_weight # None
    /\ Len(last.edge_index) = MaxEdges
    /\ \A i \in 1 .. Len(last.edge_index) : Val(last.edge_weight)[i] = 2
    /\ \A i \in 1 .. Len(last.used_weight) : last.used_weight[i] # RInt(2)
    /\ op.aggregator = "gcn" /\ op.K = 1

\* C5: with K = 1 the edge list used for the aggregation is the input's edges
\* that are not self-loops, in order, followed by exactly one self-loop per
\* node 0 .. N-1; with any other K it is the input edge list.  This holds under
\* every aggregator, with or without weights from the caller.
SelfLoopsIffOneHop ==
    last.kind = "computed" =>
        /\ op.K = 1 =>
              /\ \A v \in Nodes :
                    Cardinality(LoopsAt(last.used_index, v)) = 1
              /\ NonLoops(last.used_index) = NonLoops(last.edge_index)
              /\ Len(last.used_index)
                    = Len(NonLoops(last.edge_index)) + NumNodes
        /\ op.K # 1 => last.used_index = last.edge_index

\* K = 1 on an input in which node 0 has two self-loops and node 1 none
SelfLoopsCompleted ==
    /\ last.kind = "computed" /\ op.K = 1
    /\ last.edge_index = <<<<0, 0>>, <<0, 0>>>>
    /\ last.used_index = <<<<0, 0>>, <<1, 1>>>>

\* C6 as stated: no operator exists whose aggregator is not 'gcn' or 'mean'
\* or whose hop count is below 1.
OnlySupportedConstructed ==
    op.constructed => SupportedConfig(op)

\* the nodes that no edge used for the aggregation points to
EmptyNeighbourhoods(call) ==
    {v \in Nodes : \A i \in 1 .. Len(call.used_index) :
                      call.used_index[i][2] # v}

\* C7 as stated: a 'mean' operator with K >= 2 returns no matrix when some
\* node has an empty neighbourhood.
EmptyNeighbourhoodFails ==
    ~ ( /\ last.kind = "computed"
        /\ op.aggregator = "mean" /\ op.K >= 2
        /\ EmptyNeighbourhoods(last) # {} )

\* C10: under 'gcn', without weights from the caller, every edge used for the
\* aggregation, added self-loops included, has weight
\* 1 / sqrt(deg(src) * deg(dst)), deg(v) being the number of edges used that
\* point to v, and weight 0 if deg(src) or deg(dst) is 0.
SymmetricWeights ==
    (last.kind = "computed" /\ op.aggregator = "gcn" /\ last.edge_weight = None) =>
        LET ei == last.used_index
            indeg(v) == Cardinality({i \in 1 .. Len(ei) : ei[i][2] = v})
        IN  /\ Len(last.used_weight) = Len(ei)
            /\ \A i \in 1 .. Len(ei) :
                  LET d == indeg(ei[i][1]) * indeg(ei[i][2])
                  IN  /\ d = 0 => last.used_weight[i] = RZero
                      /\ d > 0 =>
                            /\ last.used_weight[i] = RInvSqrt(d)
                            /\ RMul(last.used_weight[i], last.used_weight[i])
                                  = RRat(Q(1, d))

\* K >= 2 on the single edge 0 -> 1: node 0 has degree 0 and the edge weight 0
ZeroDegreeWeightReached ==
    /\ last.kind = "computed" /\ op.aggregator = "gcn" /\ op.K = 2
    /\ last.edge_weight = None
    /\ last.edge_index = <<<<0, 1>>>>
    /\ last.used_weight = <<RZero>>

\* ------------------------------------------------------ claims on the GNN
\* C8: after any calls of the classifier, stage 1 (K hops, caching enabled)
\* holds and uses the diffusion that the first call computed from its own
\* arguments, and stage 2 (one hop, caching disabled) has an empty cache and
\* has aggregated its input over the topology passed to the last call, with
\* one self-loop per node.
StagesAfterCalls ==
    (gnn.constructed /\ glast # NoCall) =>
        /\ gnn.conv1.cached /\ ~gnn.conv2.cached /\ gnn.conv2.K = 1
        /\ gfill.kind = "fill"
        /\ gnn.conv1._cached_x = Some(gfill.diffused)
        /\ gfill.diffused =
              neighborhood_aggregation(Fresh(gnn.conv1, gnn.conv1.fc), gfill.x,
                                       gfill.edge_index, gfill.edge_weight).x
        /\ glast.diffused1 = gfill.diffused
        /\ glast.computed1 = glast.first
        /\ gnn.conv2._cached_x = None
        /\ glast.computed2
        /\ glast.used_index2
              = NonLoops(glast.edge_index)
                   \o [v \in 1 .. NumNodes |-> <<v - 1, v - 1>>]
        /\ glast.diffused2 =
              neighborhood_aggregation(Fresh(gnn.conv2, gnn.conv2.fc),
                                       glast.input2, glast.edge_index,
                                       glast.edge_weight).x

\* a later call with another topology: stage 1 returned the first call's
\* diffusion, which no features give over this call's topology, and stage 2
\* used the new topology
TopologyChangedBetweenCalls ==
    /\ gnn.constructed /\ glast # NoCall
    /\ ~glast.first /\ glast.moved
    /\ glast.diffused1 = gfill.diffused
    /\ \A x \in CallFeatures :
          neighborhood_aggregation(gnn.conv1, x, glast.edge_index,
                                   glast.edge_weight).x # glast.diffused1
    /\ NonLoops(glast.used_index2) = NonLoops(glast.edge_index)
    /\ NonLoops(glast.used_index2) # NonLoops(gfill.edge_index)

PassedThrough(transforms) == [i \in 1 .. Len(StoredItems) |-> transforms]

\* the Privatize transforms of the first n runs, in order
PrivatizedUpTo(n) == [k \in 1 .. n |-> runs[k].privatize]

\* C12: add_transform never removes or replaces a transform added earlier:
\* before preparation the dataset's transform passes an item through all the
\* transforms given so far, in the order given, and after preparation every
\* prepared data object has passed through all of them in that order; so the
\* data seen by the n-th run of train_and_test on the module built by
\* batch_train_and_test has passed through Normalize and then through the
\* Privatize transforms of runs 1 .. n in order.
AddTransformKeepsEarlierTransforms ==
    dm.constructed =>
        /\ ~dm.has_prepared_data =>
              /\ dm.data_list = None
              /\ DatasetItem(dm.transform, RawData) = added
        /\ dm.has_prepared_data => dm.data_list = Some(PassedThrough(added))
        /\ \A n \in 1 .. Len(runs) :
              runs[n].seen =
                  PassedThrough(<<NormalizeTransform(0, 1)>> \o PrivatizedUpTo(n))

\* a second run with another Privatize than the first has seen data that
\* passed through the first run's Privatize before its own
SecondRunSeesBothPrivatize ==
    /\ dm.constructed /\ job.active /\ Len(runs) >= 2
    /\ runs[1].privatize # runs[2].privatize
    /\ runs[2].seen =
          <<<<NormalizeTransform(0, 1), runs[1].privatize, runs[2].privatize>>>>
    /\ dm.data_list # None
    /\ Len(Val(dm.data_list)[1]) = Len(runs) + 1

====
